---- MODULE Spec2Model ----
(***************************************************************************)
(* The user-story store of project-mcp: one JSON file holding an ordered   *)
(* array of story records, and the storage functions that read the whole   *)
(* array, change a copy in memory and write the whole array back.          *)
(*                                                                         *)
(* A story is a JavaScript object; it is modelled as a function from the   *)
(* names of the properties it has to their values, so that an optional     *)
(* property that is absent is a name outside DOMAIN.  A Date is            *)
(* [date |-> t], t the clock reading in milliseconds; JSON.stringify turns *)
(* it into its ISO string, modelled as [iso |-> t].                        *)
(***************************************************************************)
EXTENDS Integers, Sequences, FiniteSets, TLC

(***************************************************************************)
(* Bounds of the model.                                                    *)
(***************************************************************************)
\* the store never holds more than MaxStories records
MaxStories == 3
\* number of storage calls in one run
MaxOps == 5
\* a file found at start-up holds at most MaxStored records
MaxStored == 2
\* number of writes the file system lets fail in one run
MaxFaults == 1
\* number of calls the server may have in progress at the same time
MaxProcs == 2

VARIABLES
    file,      \* content of user-stories.json: the array JSON.parse gives; <<>> when there is none
    disk,      \* what fs.readFile finds at USER_STORIES_FILE: see DiskStates
    faults,    \* number of writes the file system may still let fail
    now,       \* the clock: what new Date() reads in the next call, in milliseconds
    issued,    \* number of identifiers uuidv4 has given out
    calls,     \* number of storage calls made so far
    before,    \* the file as it was when the last call began
    last,      \* the last call: operation, arguments, outcome, returned value
    inflight   \* the calls in progress: for each, how far it is and what it holds

vars == <<file, disk, faults, now, issued, calls, before, last, inflight>>

(***************************************************************************)
(* user-story.ts                                                           *)
(***************************************************************************)
StoryStatus == {"New", "In Progress", "In Review", "Done", "Blocked"}

StoryPriority == {"Low", "Medium", "High", "Critical"}

UNSTARTED == "Unstarted"

STARTED == "Started"

PLAYED == "Played"

StoryProgressState == {UNSTARTED, STARTED, PLAYED}

(***************************************************************************)
(* JavaScript values and array methods used by storage.ts                  *)
(***************************************************************************)
\* obj.k is not undefined
Has(obj, k) == k \in DOMAIN obj

\* { ...a, ...b }: the properties of a, overridden and extended by those of b
Spread(a, b) ==
    [k \in (DOMAIN a) \cup (DOMAIN b) |-> IF k \in DOMAIN b THEN b[k] ELSE a[k]]

\* new Date() at clock reading t
NewDate(t) == [date |-> t]

\* Date.prototype.toJSON: the ISO string of the same millisecond
toISOString(d) == [iso |-> d.date]

\* the properties of UserStory declared as Date
DateKeys == {"createdAt", "updatedAt"}

\* JSON.stringify of a timestamp property: a Date becomes its ISO string,
\* a string read from the file stays what it is
toJSON(v) == IF Has(v, "date") THEN toISOString(v) ELSE v

\* JSON.stringify of one story
stringifyStory(story) ==
    [k \in DOMAIN story |-> IF k \in DateKeys THEN toJSON(story[k]) ELSE story[k]]

\* JSON.parse(JSON.stringify(stories)): what a later read finds in the file
stringify(stories) == [i \in 1..Len(stories) |-> stringifyStory(stories[i])]

\* story.played used as a condition: undefined and false are falsy
TruthyPlayed(story) == Has(story, "played") /\ story.played = TRUE

\* story.progressState used as a condition: undefined is falsy, a state name truthy
TruthyProgressState(story) == Has(story, "progressState")

\* stories.findIndex((story) => story.id === storyId): 0-based, -1 when none
findIndex(stories, storyId) ==
    IF \E i \in 1..Len(stories) : stories[i].id = storyId
    THEN (CHOOSE i \in 1..Len(stories) :
              /\ stories[i].id = storyId
              /\ \A j \in 1..(i - 1) : stories[j].id # storyId) - 1
    ELSE -1

\* the index splice starts at: a negative start counts from the end
spliceStart(len, start) ==
    IF start < 0 THEN (IF len + start < 0 THEN 0 ELSE len + start)
    ELSE (IF start > len THEN len ELSE start)

\* what arr.splice(start, 1) removes (a list of at most one element)
spliceRemoved(arr, start) ==
    LET s == spliceStart(Len(arr), start)
    IN  IF s < Len(arr) THEN <<arr[s + 1]>> ELSE <<>>

\* arr after arr.splice(start, 1)
spliceDelete(arr, start) ==
    LET s == spliceStart(Len(arr), start)
    IN  SubSeq(arr, 1, s) \o SubSeq(arr, s + 2, Len(arr))

\* arr after arr.splice(start, 0, item)
spliceInsert(arr, start, item) ==
    LET s == spliceStart(Len(arr), start)
    IN  SubSeq(arr, 1, s) \o <<item>> \o SubSeq(arr, s + 1, Len(arr))

\* arr with arr[index] = item (index 0-based and inside the array)
setAt(arr, index, item) ==
    [i \in 1..Len(arr) |-> IF i = index + 1 THEN item ELSE arr[i]]

(***************************************************************************)
(* storage.ts.  Each function is given the file content f and the clock    *)
(* reading t and yields its outcome: kind "value" (a story is returned),   *)
(* "stories" (an array of stories is returned), "null" (not found) or      *)
(* "throw" (an Error with the message), whether                            *)
(* writeUserStories was called and with which stories, and the file        *)
(* content afterwards.                                                     *)
(***************************************************************************)
NoValue == [none |-> TRUE]

Returned(f, value) ==
    [kind |-> "value", value |-> value, wrote |-> FALSE, saved |-> NoValue, file |-> f,
     message |-> NoValue]

\* faulty variant of Null: the stories read are written back before returning
NullAfterWrite(f) ==
    [kind |-> "null", value |-> NoValue, wrote |-> TRUE, saved |-> f, file |-> f,
     message |-> NoValue]

\* return null
Null(f) ==
    [kind |-> "null", value |-> NoValue, wrote |-> FALSE, saved |-> NoValue, file |-> f,
     message |-> NoValue]

\* return the stories
ReturnedStories(f, value) ==
    [kind |-> "stories", value |-> value, wrote |-> FALSE, saved |-> NoValue, file |-> f,
     message |-> NoValue]

Throw(f, message) ==
    [kind |-> "throw", value |-> NoValue, wrote |-> FALSE, saved |-> NoValue, file |-> f,
     message |-> message]

\* writeUserStories(stories), then return value
writeUserStories(stories, value) ==
    [kind |-> "value", value |-> value, wrote |-> TRUE, saved |-> stories,
     file |-> stringify(stories), message |-> NoValue]

\* faulty variant of normalizeStory: a story without progressState is left as stored
normalizeStoryNewOnly(story) ==
    IF TruthyProgressState(story)
    THEN Spread(story, [played |-> (story.progressState = PLAYED)])
    ELSE story

\* faulty variant of normalizeStory: a stored played flag is kept as it is
normalizeStoryKeepsPlayed(story) ==
    IF TruthyProgressState(story)
    THEN Spread([played |-> (story.progressState = PLAYED)], story)
    ELSE Spread(story, [progressState |-> IF TruthyPlayed(story) THEN PLAYED ELSE UNSTARTED])

\* the body of stories.map(...) in readUserStories
normalizeStory(story) ==
    IF TruthyProgressState(story)
    THEN Spread(story, [played |-> (story.progressState = PLAYED)])
    ELSE Spread(story, [progressState |-> IF TruthyPlayed(story) THEN PLAYED ELSE UNSTARTED])

\* stories.map(...) of readUserStories over the array f that JSON.parse gave
readUserStories(f) == [i \in 1..Len(f) |-> normalizeStory(f[i])]

\* what the try block of readUserStories can find at USER_STORIES_FILE: no file; a
\* file that may not be read; text that is no JSON; JSON that is no array ({} or
\* null); an array of story records
DiskStates == {"absent", "denied", "notJson", "notArray", "array"}

\* the error the try block of readUserStories throws: fs.readFile rejects, JSON.parse
\* throws, or stories.map is no function
readError(d) ==
    CASE d = "absent"   -> [name |-> "Error", code |-> "ENOENT",
                            message |-> "ENOENT: no such file or directory"]
      [] d = "denied"   -> [name |-> "Error", code |-> "EACCES",
                            message |-> "EACCES: permission denied"]
      [] d = "notJson"  -> [name |-> "SyntaxError", message |-> "Unexpected token"]
      [] d = "notArray" -> [name |-> "TypeError",
                            message |-> "stories.map is not a function"]

\* faulty variant of returnsEmpty: every error is answered with []
returnsEmptyAlways(error) == Has(error, "name")

\* the condition of the catch block of readUserStories
returnsEmpty(error) ==
    \/ Has(error, "code") /\ error.code = "ENOENT"
    \/ error.name = "SyntaxError"

\* readUserStories() throws the error of its try block again
readThrows(d) == d # "array" /\ ~returnsEmpty(readError(d))

\* readUserStories() with d at USER_STORIES_FILE: the stories it returns or the
\* error it throws again
tryReadUserStories(d, f) ==
    IF readThrows(d) THEN [kind |-> "throw", error |-> readError(d)]
    ELSE IF d = "array" THEN [kind |-> "value", stories |-> readUserStories(f)]
    ELSE [kind |-> "value", stories |-> <<>>]

\* fs.writeFile rejected
writeFailed(w) == w \in {"unopened", "truncated"}

\* fs.writeFile(USER_STORIES_FILE, ...) opens the file with flag 'w' and then writes
\* the text: it succeeds, or rejects before the file is opened (the content stays),
\* or rejects once the file is opened and cut to length 0 (what was written of the
\* text is no JSON)
WriteOutcomes(wrote, faultsLeft) ==
    IF ~wrote THEN {"none"}
    ELSE IF faultsLeft > 0 THEN {"written", "unopened", "truncated"}
    ELSE {"written"}

\* faulty variant of newStory: the caller's properties spread last and win
newStoryCallerWins(storyData, id, t) ==
    Spread([id |-> id, played |-> FALSE, progressState |-> UNSTARTED,
            createdAt |-> NewDate(t), updatedAt |-> NewDate(t)], storyData)

\* faulty variant of newStory: an id the caller supplies is kept
newStoryKeepsCallerId(storyData, id, t) ==
    Spread(storyData,
           [id |-> IF Has(storyData, "id") THEN storyData.id ELSE id,
            played |-> FALSE, progressState |-> UNSTARTED,
            createdAt |-> NewDate(t), updatedAt |-> NewDate(t)])

\* the object literal of addUserStory
newStory(storyData, id, t) ==
    Spread(storyData,
           [id |-> id, played |-> FALSE, progressState |-> UNSTARTED,
            createdAt |-> NewDate(t), updatedAt |-> NewDate(t)])

addUserStory(f, storyData, id, t) ==
    LET stories == readUserStories(f)
        story   == newStory(storyData, id, t)
    IN  writeUserStories(Append(stories, story), story)

\* faulty variant of markStoryPlayed: marking a Started story unplayed leaves it Started
markStoryPlayedKeepsStarted(f, storyId, played, t) ==
    LET stories    == readUserStories(f)
        storyIndex == findIndex(stories, storyId)
    IN  IF storyIndex = -1 THEN Null(f)
        ELSE LET story   == stories[storyIndex + 1]
                 updated == Spread(story,
                                [played |-> played,
                                 progressState |->
                                     IF played THEN PLAYED
                                     ELSE IF story.progressState = STARTED THEN STARTED
                                     ELSE UNSTARTED,
                                 updatedAt |-> NewDate(t)])
             IN  writeUserStories(setAt(stories, storyIndex, updated), updated)

\* faulty variant of markStoryPlayed: the played flag alone is set, as the
\* storage module did before progressState existed
markStoryPlayedFlagOnly(f, storyId, played, t) ==
    LET stories    == readUserStories(f)
        storyIndex == findIndex(stories, storyId)
    IN  IF storyIndex = -1 THEN Null(f)
        ELSE LET updated == Spread(stories[storyIndex + 1],
                                [played |-> played, updatedAt |-> NewDate(t)])
             IN  writeUserStories(setAt(stories, storyIndex, updated), updated)

markStoryPlayed(f, storyId, played, t) ==
    LET stories    == readUserStories(f)
        storyIndex == findIndex(stories, storyId)
    IN  IF storyIndex = -1 THEN Null(f)
        ELSE LET updated == Spread(stories[storyIndex + 1],
                                [played |-> played,
                                 progressState |-> IF played THEN PLAYED ELSE UNSTARTED,
                                 updatedAt |-> NewDate(t)])
             IN  writeUserStories(setAt(stories, storyIndex, updated), updated)

\* faulty variant of updateStoryProgressState: a Played story cannot leave Played
updateStoryProgressStatePlayedIsFinal(f, storyId, progressState, t) ==
    LET stories    == readUserStories(f)
        storyIndex == findIndex(stories, storyId)
    IN  IF storyIndex = -1 THEN Null(f)
        ELSE IF stories[storyIndex + 1].progressState = PLAYED /\ progressState # PLAYED
        THEN Throw(f, "Cannot reopen played user stories")
        ELSE LET updated == Spread(stories[storyIndex + 1],
                                   [progressState |-> progressState,
                                    played |-> (progressState = PLAYED),
                                    updatedAt |-> NewDate(t)])
             IN  writeUserStories(setAt(stories, storyIndex, updated), updated)

\* faulty variant of updateStoryProgressState: played is left as it was
updateStoryProgressStateNoSync(f, storyId, progressState, t) ==
    LET stories    == readUserStories(f)
        storyIndex == findIndex(stories, storyId)
    IN  IF storyIndex = -1 THEN Null(f)
        ELSE LET updatedStory == Spread(stories[storyIndex + 1],
                                     [progressState |-> progressState,
                                      updatedAt |-> NewDate(t)])
             IN  writeUserStories(setAt(stories, storyIndex, updatedStory), updatedStory)

updateStoryProgressState(f, storyId, progressState, t) ==
    LET stories    == readUserStories(f)
        storyIndex == findIndex(stories, storyId)
    IN  IF storyIndex = -1 THEN Null(f)
        ELSE LET updatedStory == Spread(stories[storyIndex + 1],
                                     [progressState |-> progressState,
                                      played |-> (progressState = PLAYED),
                                      updatedAt |-> NewDate(t)])
             IN  writeUserStories(setAt(stories, storyIndex, updatedStory), updatedStory)

\* faulty variant of editUserStory: the stored properties spread last and win
editUserStoryStoredWins(f, storyId, updates, t) ==
    LET stories    == readUserStories(f)
        storyIndex == findIndex(stories, storyId)
    IN  IF storyIndex = -1 THEN Null(f)
        ELSE LET updatedStory == Spread(Spread(updates, stories[storyIndex + 1]),
                                        [updatedAt |-> NewDate(t)])
             IN  writeUserStories(setAt(stories, storyIndex, updatedStory), updatedStory)

\* faulty variant of editUserStory: updatedAt is left as it was
editUserStoryNoTimestamp(f, storyId, updates, t) ==
    LET stories    == readUserStories(f)
        storyIndex == findIndex(stories, storyId)
    IN  IF storyIndex = -1 THEN Null(f)
        ELSE LET updatedStory == Spread(stories[storyIndex + 1], updates)
             IN  writeUserStories(setAt(stories, storyIndex, updatedStory), updatedStory)

editUserStory(f, storyId, updates, t) ==
    LET stories    == readUserStories(f)
        storyIndex == findIndex(stories, storyId)
    IN  IF storyIndex = -1 THEN Null(f)
        ELSE LET updatedStory == Spread(Spread(stories[storyIndex + 1], updates),
                                        [updatedAt |-> NewDate(t)])
             IN  writeUserStories(setAt(stories, storyIndex, updatedStory), updatedStory)

\* faulty variant of isUnstarted: every story that is not played counts
isUnstartedByFlag(s) == ~TruthyPlayed(s)

\* the callback of stories.filter(...) for unstartedStories (filter is SelectSeq)
isUnstarted(s) ==
    \/ (Has(s, "progressState") /\ s.progressState = UNSTARTED)
    \/ (~Has(s, "progressState") /\ ~TruthyPlayed(s))

\* the callback of stories.filter(...) for otherStories
isOther(s) ==
    \/ (TruthyProgressState(s) /\ s.progressState # UNSTARTED)
    \/ (~Has(s, "progressState") /\ TruthyPlayed(s))

\* faulty variant of notReorderable: only the played flag is looked at
notReorderablePlayedOnly(story) == TruthyPlayed(story)

\* the condition of the first throw of reorderStory
notReorderable(story) ==
    IF TruthyProgressState(story) THEN story.progressState # UNSTARTED
    ELSE TruthyPlayed(story)

\* faulty variant of outOfBounds: one past the end is let through
outOfBoundsOffByOne(newPosition, length) == newPosition < 0 \/ newPosition > length

\* faulty variant of outOfBounds: a position past the end is let through
outOfBoundsNegativeOnly(newPosition, length) == newPosition < 0

\* the condition of the second throw of reorderStory
outOfBounds(newPosition, length) == newPosition < 0 \/ newPosition >= length

\* faulty variant of samePosition: the early return is never taken
samePositionNever(currentUnstartedIndex, newPosition) == FALSE

\* the condition of the early return of reorderStory
samePosition(currentUnstartedIndex, newPosition) == currentUnstartedIndex = newPosition

\* faulty variant of moveStory: the two stories trade places
moveStorySwap(unstartedStories, currentUnstartedIndex, newPosition) ==
    [storyToMove |-> unstartedStories[currentUnstartedIndex + 1],
     unstartedStories |->
        [i \in 1..Len(unstartedStories) |->
            IF i = currentUnstartedIndex + 1 THEN unstartedStories[newPosition + 1]
            ELSE IF i = newPosition + 1 THEN unstartedStories[currentUnstartedIndex + 1]
            ELSE unstartedStories[i]]]

\* the two splices of reorderStory: take the story out, put it in at newPosition
moveStory(unstartedStories, currentUnstartedIndex, newPosition) ==
    LET removed == spliceRemoved(unstartedStories, currentUnstartedIndex)
        rest    == spliceDelete(unstartedStories, currentUnstartedIndex)
    IN  [storyToMove |-> removed[1],
         unstartedStories |-> spliceInsert(rest, newPosition, removed[1])]

\* faulty variant of reassemble: the other stories are left out
reassembleUnstartedOnly(otherStories, unstartedStories) == unstartedStories

\* faulty variant of reassemble: the unstarted stories come first
reassembleUnstartedFirst(otherStories, unstartedStories) == unstartedStories \o otherStories

\* [...otherStories, ...unstartedStories]
reassemble(otherStories, unstartedStories) == otherStories \o unstartedStories

reorderStory(f, storyId, newPosition, t) ==
    LET stories    == readUserStories(f)
        storyIndex == findIndex(stories, storyId)
    IN  IF storyIndex = -1 THEN Null(f)
        ELSE
        LET story == stories[storyIndex + 1]
        IN  IF notReorderable(story)
            THEN Throw(f, [text |-> "Can only reorder stories in Unstarted state"])
            ELSE
            LET unstartedStories      == SelectSeq(stories, isUnstarted)
                currentUnstartedIndex == findIndex(unstartedStories, storyId)
            IN  IF outOfBounds(newPosition, Len(unstartedStories))
                THEN Throw(f, [text |-> "New position must be between 0 and ",
                               upper |-> Len(unstartedStories) - 1])
                ELSE IF samePosition(currentUnstartedIndex, newPosition)
                THEN Returned(f, story)
                ELSE
                LET moved          == moveStory(unstartedStories, currentUnstartedIndex,
                                                newPosition)
                    otherStories   == SelectSeq(stories, isOther)
                    updatedStories == reassemble(otherStories, moved.unstartedStories)
                    updatedStory   == Spread(moved.storyToMove, [updatedAt |-> NewDate(t)])
                    updatedIndex   == findIndex(updatedStories, storyId)
                IN  writeUserStories(setAt(updatedStories, updatedIndex, updatedStory),
                                     updatedStory)

(***************************************************************************)
(* src/storage.ts: the version of the storage module that knows the played *)
(* flag alone.  Its readUserStories returns what JSON.parse returns, its   *)
(* reorderStory tests and filters on story.played.                         *)
(***************************************************************************)
\* return JSON.parse(data) as UserStory[]
readUserStoriesOlder(f) == f

\* the callback of stories.filter(...) for unplayedStories
isUnplayed(story) == ~TruthyPlayed(story)

\* the callback of stories.filter(...) for playedStories
isPlayed(story) == TruthyPlayed(story)

reorderStoryOlder(f, storyId, newPosition, t) ==
    LET stories    == readUserStoriesOlder(f)
        storyIndex == findIndex(stories, storyId)
    IN  IF storyIndex = -1 THEN Null(f)
        ELSE
        LET story == stories[storyIndex + 1]
        IN  IF TruthyPlayed(story)
            THEN Throw(f, [text |-> "Cannot reorder played user stories"])
            ELSE
            LET unplayedStories      == SelectSeq(stories, isUnplayed)
                currentUnplayedIndex == findIndex(unplayedStories, storyId)
            IN  IF newPosition < 0 \/ newPosition >= Len(unplayedStories)
                THEN Throw(f, [text |-> "New position must be between 0 and ",
                               upper |-> Len(unplayedStories) - 1])
                ELSE IF currentUnplayedIndex = newPosition
                THEN Returned(f, story)
                ELSE
                LET storyToMove    == spliceRemoved(unplayedStories, currentUnplayedIndex)[1]
                    rest           == spliceDelete(unplayedStories, currentUnplayedIndex)
                    playedStories  == SelectSeq(stories, isPlayed)
                    updatedStories == playedStories
                                          \o spliceInsert(rest, newPosition, storyToMove)
                    updatedStory   == Spread(storyToMove, [updatedAt |-> NewDate(t)])
                    updatedIndex   == findIndex(updatedStories, storyId)
                IN  writeUserStories(setAt(updatedStories, updatedIndex, updatedStory),
                                     updatedStory)

(***************************************************************************)
(* index.ts, case "list_user_stories".                                     *)
(***************************************************************************)
\* if (parsed.data.k): the filter is given and is not the empty string
TruthyFilter(filters, k) == Has(filters, k) /\ filters[k] # ""

\* story[k] === value, where a property the story lacks is undefined
StrictEquals(story, k, value) == Has(story, k) /\ story[k] = value

\* faulty variant of matchesFilters: the played filter is applied as well when a
\* progressState filter is given
matchesFiltersBoth(story, filters) ==
    /\ TruthyFilter(filters, "status") => StrictEquals(story, "status", filters.status)
    /\ TruthyFilter(filters, "priority") => StrictEquals(story, "priority", filters.priority)
    /\ TruthyFilter(filters, "assignee") => StrictEquals(story, "assignee", filters.assignee)
    /\ Has(filters, "progressState") =>
           StrictEquals(story, "progressState", filters.progressState)
    /\ Has(filters, "played") => StrictEquals(story, "played", filters.played)

\* the filters of list_user_stories, one after the other
matchesFilters(story, filters) ==
    /\ TruthyFilter(filters, "status") => StrictEquals(story, "status", filters.status)
    /\ TruthyFilter(filters, "priority") => StrictEquals(story, "priority", filters.priority)
    /\ TruthyFilter(filters, "assignee") => StrictEquals(story, "assignee", filters.assignee)
    /\ IF Has(filters, "progressState")
       THEN StrictEquals(story, "progressState", filters.progressState)
       ELSE Has(filters, "played") => StrictEquals(story, "played", filters.played)

\* the lines list_user_stories prints for one story
formatStory(story) ==
    [ID            |-> story.id,
     Title         |-> story.title,
     Status        |-> story.status,
     Priority      |-> story.priority,
     Assignee      |-> IF Has(story, "assignee") /\ story.assignee # ""
                       THEN story.assignee ELSE "Unassigned",
     Points        |-> IF Has(story, "points") /\ story.points # 0
                       THEN story.points ELSE "Not estimated",
     ProgressState |-> IF TruthyProgressState(story) THEN story.progressState
                       ELSE IF TruthyPlayed(story) THEN PLAYED ELSE UNSTARTED,
     Played        |-> IF TruthyPlayed(story) THEN "Yes" ELSE "No",
     Description   |-> story.description]

\* the text of the response
formatStories(filteredStories) ==
    IF Len(filteredStories) > 0
    THEN [i \in 1..Len(filteredStories) |-> formatStory(filteredStories[i])]
    ELSE "No user stories found matching the criteria"

\* faulty variant of listUserStories: a played filter that is not given counts as false
listUserStoriesPlayedDefaultsFalse(d, f, filters) ==
    LET read == tryReadUserStories(d, f)
    IN  IF read.kind = "throw" THEN Throw(f, read.error.message)
        ELSE LET filteredStories ==
                     SelectSeq(read.stories,
                               LAMBDA story :
                                   matchesFilters(story, Spread([played |-> FALSE], filters)))
             IN  ReturnedStories(f, [stories |-> filteredStories,
                              text |-> formatStories(filteredStories)])

\* the handler with d at USER_STORIES_FILE: the stories read, filtered and printed
listUserStories(d, f, filters) ==
    LET read == tryReadUserStories(d, f)
    IN  IF read.kind = "throw" THEN Throw(f, read.error.message)
        ELSE LET filteredStories ==
                     SelectSeq(read.stories, LAMBDA story : matchesFilters(story, filters))
             IN  ReturnedStories(f, [stories |-> filteredStories,
                              text |-> formatStories(filteredStories)])

(***************************************************************************)
(* index.ts, the CallToolRequestSchema handler: what it answers to a call, *)
(* given the outcome of the storage function the call reached.             *)
(***************************************************************************)
\* throw new Error(message) inside the handler
Thrown(message) == [threw |-> TRUE, payload |-> message]

\* return { content: [{ type: "text", text }] }
Answered(text) == [threw |-> FALSE, payload |-> text]

\* `User story with ID ${storyId} not found`
notFoundMessage(storyId) == [text |-> "User story with ID not found", storyId |-> storyId]

\* faulty variant of failedToReorder: the error of the store is thrown on as it is
failedToReorderUnwrapped(message) == message

\* `Failed to reorder story: ${errorMessage}`
failedToReorder(message) == [text |-> "Failed to reorder story: ", errorMessage |-> message]

\* ReorderStoryArgsSchema: newPosition is z.number().int().min(0)
validReorderArgs(args) == args.newPosition >= 0

\* the case of the switch: the answer it returns or the Error it throws
handleCase(op, args, result) ==
    CASE op = "addUserStory" ->
            IF result.kind = "throw" THEN Thrown(result.message)
            ELSE Answered([text |-> "User story created successfully with ID: ",
                           id |-> result.value.id])
      [] op = "listUserStories" ->
            IF result.kind = "throw" THEN Thrown(result.message)
            ELSE Answered(result.value.text)
      [] op = "reorderStory" ->
            IF ~validReorderArgs(args)
            THEN Thrown([text |-> "Invalid arguments for reorder_story: "])
            ELSE IF result.kind = "throw" THEN Thrown(failedToReorder(result.message))
            ELSE IF result.kind = "null"
            THEN Thrown(failedToReorder(notFoundMessage(args.storyId)))
            ELSE Answered([text |-> "User story has been moved to position ",
                           title |-> result.value.title, newPosition |-> args.newPosition])
      [] OTHER ->
            IF result.kind = "throw" THEN Thrown(result.message)
            ELSE IF result.kind = "null" THEN Thrown(notFoundMessage(args.storyId))
            ELSE Answered([text |-> "User story has been updated", op |-> op,
                           title |-> result.value.title, args |-> args])

\* the try and catch around the switch: an Error thrown becomes an error response
requestHandler(op, args, result) ==
    LET outcome == handleCase(op, args, result)
    IN  IF outcome.threw
        THEN [kind |-> "response", isError |-> TRUE,
              text |-> [text |-> "Error: ", errorMessage |-> outcome.payload]]
        ELSE [kind |-> "response", isError |-> FALSE, text |-> outcome.payload]

(***************************************************************************)
(* Inputs of the calls.                                                    *)
(***************************************************************************)
\* what a caller passes to addUserStory: the fields add_user_story passes once its
\* schema has filled in the defaults, and an argument that also carries the
\* properties the store assigns itself (the id of the first story among them)
StoryInputs ==
    { [title |-> "Login", description |-> "As a user", status |-> "New",
       priority |-> "Medium"],
      [title |-> "Forged", description |-> "As a caller", status |-> "Done",
       priority |-> "Low", assignee |-> "zoe", id |-> 1, played |-> TRUE,
       progressState |-> PLAYED, createdAt |-> [iso |-> 0], updatedAt |-> [iso |-> 0]] }

\* the updates a caller passes to editUserStory: none, or a field the story has
\* and one it may lack
UpdateInputs ==
    { [x \in {} |-> TRUE],
      [title |-> "Sign in", points |-> 5] }

\* the filters a caller passes to list_user_stories: none; status, priority and
\* assignee with both progressState and played; played alone
FilterInputs ==
    { [x \in {} |-> TRUE],
      [status |-> "Done", priority |-> "Low", assignee |-> "zoe",
       progressState |-> UNSTARTED, played |-> TRUE],
      [played |-> FALSE] }

\* a record found in a file at start-up: written by this version, or by one that
\* knew the played flag alone, or by one that knew neither property
StoredRecords(i) ==
    { Spread(Spread([id |-> i, title |-> "Login", description |-> "As a user",
                     status |-> "New", priority |-> "Medium",
                     createdAt |-> [iso |-> 0], updatedAt |-> [iso |-> 0]], pl), ps) :
        pl \in {[x \in {} |-> TRUE], [played |-> TRUE], [played |-> FALSE]},
        ps \in {[x \in {} |-> TRUE]} \cup {[progressState |-> p] : p \in StoryProgressState} }

\* the arrays of at most MaxStored records a file may hold at start-up
StoredFiles ==
    UNION { { f \in [1..n -> UNION {StoredRecords(i) : i \in 1..n}] :
                \A i \in 1..n : f[i].id = i } : n \in 0..MaxStored }

\* identifiers a caller may name: every one given out so far and one never given out
StoryIds == 1..(issued + 1)

\* positions a caller may ask for: one below 0 up to one past the end
Positions == (0 - 1)..MaxStories

\* faulty variant of uuidv4: the identifier given last is given again
uuidv4Reused == IF issued = 0 THEN 1 ELSE issued

\* uuidv4(): an identifier no earlier call was given
uuidv4 == issued + 1

(***************************************************************************)
(* The state machine: one action per storage call.                         *)
(***************************************************************************)
\* the calls the server can have in progress
Procs == 1..MaxProcs

\* no call is in progress
NoneInFlight == [p \in Procs |-> [pc |-> "idle"]]

\* no call was made yet
NoCall ==
    [op |-> "none", args |-> NoValue, now |-> 0,
     result |-> [kind |-> "none", value |-> NoValue, wrote |-> FALSE, saved |-> NoValue,
                 failed |-> FALSE, message |-> NoValue]]

\* a new store: there is no file yet, and every write succeeds
Init ==
    /\ file = <<>>
    /\ disk = "absent"
    /\ faults = 0
    /\ now = 0
    /\ issued = 0
    /\ calls = 0
    /\ before = <<>>
    /\ last = NoCall
    /\ inflight = NoneInFlight

\* a new store on a file system that lets up to MaxFaults writes fail
InitFaults ==
    /\ file = <<>>
    /\ disk = "absent"
    /\ faults = MaxFaults
    /\ now = 0
    /\ issued = 0
    /\ calls = 0
    /\ before = <<>>
    /\ last = NoCall
    /\ inflight = NoneInFlight

\* the server starts on whatever is at USER_STORIES_FILE, and the run has one
\* writing call left: after its first write the file is one this version wrote
InitLoad ==
    /\ disk \in DiskStates
    /\ file \in (IF disk = "array" THEN StoredFiles ELSE {<<>>})
    /\ faults = 0
    /\ now = 0
    /\ issued = Len(file)
    /\ calls = MaxOps - 1
    /\ before = file
    /\ last = NoCall
    /\ inflight = NoneInFlight

\* the call leaves its outcome in the file and in last; the calls are made one
\* after the other, each reading a later clock than the one before
Call(op, args, result) ==
    /\ calls < MaxOps
    /\ UNCHANGED inflight
    /\ now' = now + 1
    /\ calls' = calls + 1
    /\ before' = file
    /\ \E outcome \in {IF readThrows(disk) THEN Throw(file, readError(disk).message)
                        ELSE result} :
           \E w \in WriteOutcomes(outcome.wrote, faults) :
               /\ file' = (CASE w = "truncated" -> <<>>
                             [] w = "unopened"  -> file
                             [] OTHER           -> outcome.file)
               /\ disk' = (CASE w = "truncated" -> "notJson"
                             [] w = "written"   -> "array"
                             [] OTHER           -> disk)
               /\ faults' = IF writeFailed(w) THEN faults - 1 ELSE faults
               /\ last' = [op |-> op, args |-> args, now |-> now,
                           result |-> IF writeFailed(w)
                                      THEN [kind |-> "throw", value |-> NoValue,
                                            wrote |-> outcome.wrote, saved |-> outcome.saved,
                                            failed |-> TRUE, message |-> "EIO: i/o error"]
                                      ELSE [kind |-> outcome.kind, value |-> outcome.value,
                                            wrote |-> outcome.wrote, saved |-> outcome.saved,
                                            failed |-> FALSE, message |-> outcome.message]]

AddUserStory ==
    /\ Len(file) < MaxStories
    /\ \E storyData \in StoryInputs :
           Call("addUserStory", [storyData |-> storyData],
                addUserStory(file, storyData, uuidv4, now))
    /\ issued' = issued + 1

MarkStoryPlayed ==
    /\ \E storyId \in StoryIds, played \in BOOLEAN :
           Call("markStoryPlayed", [storyId |-> storyId, played |-> played],
                markStoryPlayed(file, storyId, played, now))
    /\ UNCHANGED issued

UpdateStoryProgressState ==
    /\ \E storyId \in StoryIds, progressState \in StoryProgressState :
           Call("updateStoryProgressState",
                [storyId |-> storyId, progressState |-> progressState],
                updateStoryProgressState(file, storyId, progressState, now))
    /\ UNCHANGED issued

EditUserStory ==
    /\ \E storyId \in StoryIds, updates \in UpdateInputs :
           Call("editUserStory", [storyId |-> storyId, updates |-> updates],
                editUserStory(file, storyId, updates, now))
    /\ UNCHANGED issued

ReorderStory ==
    /\ \E storyId \in StoryIds, newPosition \in Positions :
           Call("reorderStory", [storyId |-> storyId, newPosition |-> newPosition],
                reorderStory(file, storyId, newPosition, now))
    /\ UNCHANGED issued

\* list_user_stories reads the file and neither the clock nor an identifier
ListUserStories ==
    /\ \E filters \in FilterInputs :
           \E result \in {listUserStories(disk, file, filters)} :
               last' = [op |-> "listUserStories", args |-> [filters |-> filters], now |-> now,
                        result |-> [kind |-> result.kind, value |-> result.value,
                                    wrote |-> result.wrote, saved |-> result.saved,
                                    failed |-> FALSE, message |-> result.message]]
    /\ before' = file
    /\ UNCHANGED <<file, disk, faults, now, issued, calls, inflight>>

\* the calls that write
Next ==
    \/ AddUserStory
    \/ MarkStoryPlayed
    \/ UpdateStoryProgressState
    \/ EditUserStory
    \/ ReorderStory

Spec == Init /\ [][Next]_vars

\* the same calls on a file system whose writes may fail
SpecFaults == InitFaults /\ [][Next]_vars

\* every call of the server
NextList ==
    \/ AddUserStory
    \/ MarkStoryPlayed
    \/ UpdateStoryProgressState
    \/ EditUserStory
    \/ ReorderStory
    \/ ListUserStories

SpecList == Init /\ [][NextList]_vars

\* every call of the server, made on the file found at start-up
NextLoad ==
    \/ AddUserStory
    \/ MarkStoryPlayed
    \/ UpdateStoryProgressState
    \/ EditUserStory
    \/ ReorderStory
    \/ ListUserStories

SpecLoad == InitLoad /\ [][NextLoad]_vars

(***************************************************************************)
(* Calls that overlap.  The handlers are async functions: a call gives way *)
(* at await readUserStories() and at await writeUserStories(), and another *)
(* request is served meanwhile.  fs.writeFile opens the file with flag 'w' *)
(* (which cuts it to length 0) and then writes the text from offset 0, as  *)
(* two steps of the thread pool; writes to the same file that overlap are  *)
(* not ordered by anything in the code.                                    *)
(***************************************************************************)
\* the requests a caller may send
Requests ==
    {[op |-> "addUserStory", args |-> [storyData |-> d]] : d \in StoryInputs}
    \cup {[op |-> "markStoryPlayed", args |-> [storyId |-> i, played |-> b]] :
              i \in StoryIds, b \in BOOLEAN}
    \cup {[op |-> "updateStoryProgressState", args |-> [storyId |-> i, progressState |-> ps]] :
              i \in StoryIds, ps \in StoryProgressState}
    \cup {[op |-> "editUserStory", args |-> [storyId |-> i, updates |-> u]] :
              i \in StoryIds, u \in UpdateInputs}
    \cup {[op |-> "reorderStory", args |-> [storyId |-> i, newPosition |-> n]] :
              i \in StoryIds, n \in Positions}

\* the storage function of the request, run on the stories it has read
storageCall(op, args, f, t) ==
    CASE op = "addUserStory" -> addUserStory(f, args.storyData, uuidv4, t)
      [] op = "markStoryPlayed" -> markStoryPlayed(f, args.storyId, args.played, t)
      [] op = "updateStoryProgressState" ->
             updateStoryProgressState(f, args.storyId, args.progressState, t)
      [] op = "editUserStory" -> editUserStory(f, args.storyId, args.updates, t)
      [] op = "reorderStory" -> reorderStory(f, args.storyId, args.newPosition, t)

\* the outcome a call in progress ends with
Ended(c, outcome) ==
    [op |-> c.op, args |-> c.args, now |-> now,
     result |-> [kind |-> outcome.kind, value |-> outcome.value,
                 wrote |-> outcome.wrote, saved |-> outcome.saved,
                 failed |-> FALSE, message |-> outcome.message]]

\* a request arrives and its readUserStories() reads the file; the call is the
\* first of those not in progress (which one it is makes no difference)
Load(p) ==
    /\ inflight[p].pc = "idle"
    /\ \A q \in 1..(p - 1) : inflight[q].pc # "idle"
    /\ calls < MaxOps
    /\ calls' = calls + 1
    /\ \E request \in Requests :
           /\ request.op = "addUserStory" => Len(file) < MaxStories
           /\ inflight' = [inflight EXCEPT ![p] =
                              [pc |-> "loaded", op |-> request.op, args |-> request.args,
                               disk |-> disk, file |-> file]]
    /\ UNCHANGED <<file, disk, faults, now, issued, before, last>>

\* the call goes on with the stories it read: it returns or throws without a
\* write, or its fs.writeFile opens the file and cuts it to length 0
Open(p) ==
    /\ inflight[p].pc = "loaded"
    /\ now' = now + 1
    /\ issued' = IF inflight[p].op = "addUserStory" THEN issued + 1 ELSE issued
    /\ \E c \in {inflight[p]} :
         \E outcome \in {IF readThrows(c.disk) THEN Throw(c.file, readError(c.disk).message)
                          ELSE storageCall(c.op, c.args, c.file, now)} :
           IF outcome.wrote
           THEN /\ file' = <<>>
                /\ disk' = "notJson"
                /\ inflight' =
                       [q \in Procs |->
                           IF q = p
                           THEN [pc |-> "opened", op |-> c.op, args |-> c.args,
                                 file |-> c.file, outcome |-> outcome, over |-> FALSE]
                           ELSE IF inflight[q].pc = "opened"
                           THEN [inflight[q] EXCEPT !.over = FALSE]
                           ELSE inflight[q]]
                /\ UNCHANGED <<before, last>>
           ELSE /\ inflight' = [inflight EXCEPT ![p] = [pc |-> "idle"]]
                /\ before' = c.file
                /\ last' = Ended(c, outcome)
                /\ UNCHANGED <<file, disk>>
    /\ UNCHANGED <<faults, calls>>

\* what the text of a call is written into: the file it cut to length 0, or the
\* text another call has written since; if that text is the longer one its end
\* stays behind the text of this call, and the whole is no JSON
WriteResults(over) == IF over THEN {"written", "garbled"} ELSE {"written"}

\* fs.writeFile writes the text and the call returns
Write(p) ==
    /\ inflight[p].pc = "opened"
    /\ \E c \in {inflight[p]} :
         \E w \in WriteResults(c.over) :
           /\ file' = IF w = "written" THEN c.outcome.file ELSE <<>>
           /\ disk' = IF w = "written" THEN "array" ELSE "notJson"
           /\ inflight' =
                  [q \in Procs |->
                      IF q = p THEN [pc |-> "idle"]
                      ELSE IF inflight[q].pc = "opened"
                      THEN [inflight[q] EXCEPT !.over = TRUE]
                      ELSE inflight[q]]
           /\ before' = c.file
           /\ last' = Ended(c, c.outcome)
    /\ UNCHANGED <<faults, now, issued, calls>>

\* a run of three calls on a new store: one that has written, say, and two that
\* overlap, or three that overlap
InitRace ==
    /\ file = <<>>
    /\ disk = "absent"
    /\ faults = 0
    /\ now = 0
    /\ issued = 0
    /\ calls = MaxOps - 3
    /\ before = <<>>
    /\ last = NoCall
    /\ inflight = NoneInFlight

NextRace == \E p \in Procs : Load(p) \/ Open(p) \/ Write(p)

SpecRace == InitRace /\ [][NextRace]_vars

(***************************************************************************)
(* Vocabulary of the properties.                                           *)
(***************************************************************************)
Ids(f) == [i \in 1..Len(f) |-> f[i].id]

IdSet(f) == {f[i].id : i \in 1..Len(f)}

\* the stored record with the identifier (the first, should there be several)
StoryOf(f, storyId) == f[findIndex(f, storyId) + 1]

\* effective lifecycle state: progressState if present, else derived from played
EffectiveState(story) ==
    IF Has(story, "progressState") THEN story.progressState
    ELSE IF Has(story, "played") /\ story.played = TRUE THEN PLAYED ELSE UNSTARTED

EffectivelyUnstarted(story) == EffectiveState(story) = UNSTARTED

EffectivelyFixed(story) == EffectiveState(story) # UNSTARTED

\* the reorderable subsequence of a collection, and the rest of it
UnstartedOf(f) == SelectSeq(f, EffectivelyUnstarted)

FixedOf(f) == SelectSeq(f, EffectivelyFixed)

\* a sequence of identifiers without one of them
IdsWithout(ids, storyId) == SelectSeq(ids, LAMBDA x : x # storyId)

\* played == true exactly when progressState == Played, both being present
Agree(story) ==
    /\ Has(story, "played") /\ Has(story, "progressState")
    /\ story.played \in BOOLEAN
    /\ story.played = (story.progressState = PLAYED)

Called(op) == last.op = op

\* the last call named a story that was in the store
TargetKnown == Has(last.args, "storyId") /\ last.args.storyId \in IdSet(before)

Target == StoryOf(before, last.args.storyId)

\* the last call was a reorder that wrote, that is, one that changed a position
Moved == Called("reorderStory") /\ last.result.wrote

(***************************************************************************)
(* C1.  After any sequence of create, edit, set-lifecycle-state,           *)
(* mark-played and reorder calls every record of the persisted collection  *)
(* has played == true exactly when progressState == Played, and a call     *)
(* that wrote one of the two fields of a record wrote the other as well:   *)
(* the record it returns carries both, in agreement.                       *)
(***************************************************************************)
C1_PlayedAgreesWithProgressState ==
    /\ \A i \in 1..Len(file) : Agree(file[i])
    /\ last.result.kind = "value" => Agree(last.result.value)

\* a Started story has just been marked played: both fields were rewritten
C1_Witness ==
    /\ Called("markStoryPlayed") /\ TargetKnown /\ last.args.played = TRUE
    /\ Target.progressState = STARTED
    /\ StoryOf(file, last.args.storyId).progressState = PLAYED

C3_IdsUniqueAndImmutable ==
    /\ \A i, j \in 1..Len(file) : file[i].id = file[j].id => i = j
    /\ Called("addUserStory") =>
           /\ last.result.value.id \notin IdSet(before)
           /\ Ids(file) = Append(Ids(before), last.result.value.id)
    /\ (Called("markStoryPlayed") \/ Called("updateStoryProgressState")
            \/ Called("editUserStory")) =>
           Ids(file) = Ids(before)
    /\ Called("reorderStory") =>
           /\ Len(file) = Len(before)
           /\ IdSet(file) = IdSet(before)
    /\ last.result.kind = "value" /\ ~Called("addUserStory") =>
           last.result.value.id = last.args.storyId

\* create was handed the id of a stored record and gave another one
C3_Witness ==
    /\ Called("addUserStory")
    /\ Has(last.args.storyData, "id")
    /\ last.args.storyData.id \in IdSet(before)
    /\ last.result.value.id # last.args.storyData.id

(***************************************************************************)
(* C4.  After a reorder(id, newPosition) that changed a position, the      *)
(* target sits at index newPosition of the Unstarted subsequence and the   *)
(* other Unstarted records keep their relative order; Unstarted order      *)
(* A, B, C and reorder(C, 0) gives C, A, B.                                *)
(***************************************************************************)
C4_ReorderIsSingleMove ==
    Moved =>
        LET old == Ids(UnstartedOf(before))
            new == Ids(UnstartedOf(file))
        IN  /\ Len(new) = Len(old)
            /\ new[last.args.newPosition + 1] = last.args.storyId
            /\ IdsWithout(new, last.args.storyId) = IdsWithout(old, last.args.storyId)

\* three Unstarted stories A, B, C; C moved to the front: C, A, B
C4_Witness ==
    /\ Moved
    /\ Ids(UnstartedOf(before)) = <<1, 2, 3>>
    /\ last.args.storyId = 3 /\ last.args.newPosition = 0
    /\ Ids(UnstartedOf(file)) = <<3, 1, 2>>

C6_ReorderRejectsNonUnstarted ==
    (Called("reorderStory") /\ TargetKnown /\ EffectiveState(Target) # UNSTARTED) =>
        /\ last.result.kind = "throw"
        /\ last.result.message = [text |-> "Can only reorder stories in Unstarted state"]
        /\ ~last.result.wrote
        /\ file = before

\* a Started record, asked to move to a position that exists, was refused
C6_Witness ==
    /\ Called("reorderStory") /\ TargetKnown
    /\ EffectiveState(Target) = STARTED
    /\ last.args.newPosition \in 0..(Len(UnstartedOf(before)) - 1)
    /\ last.result.kind = "throw"

(***************************************************************************)
(* C7.  Reorder of an Unstarted record with newPosition < 0 or             *)
(* newPosition >= the number of Unstarted records raises an error that     *)
(* names the bound and leaves the persisted collection unchanged; exactly  *)
(* the positions 0 .. number of Unstarted records - 1 are accepted.        *)
(***************************************************************************)
C7_ReorderBounds ==
    (Called("reorderStory") /\ TargetKnown /\ EffectiveState(Target) = UNSTARTED) =>
        LET n == Len(UnstartedOf(before))
        IN  IF last.args.newPosition < 0 \/ last.args.newPosition >= n
            THEN /\ last.result.kind = "throw"
                 /\ last.result.message =
                        [text |-> "New position must be between 0 and ", upper |-> n - 1]
                 /\ ~last.result.wrote
                 /\ file = before
            ELSE last.result.kind = "value"

\* one past the end of the Unstarted records, though inside the whole collection
C7_Witness ==
    /\ Called("reorderStory") /\ TargetKnown /\ EffectiveState(Target) = UNSTARTED
    /\ last.args.newPosition = Len(UnstartedOf(before))
    /\ last.args.newPosition < Len(before)
    /\ last.result.kind = "throw"

(***************************************************************************)
(* C8.  Reorder with newPosition equal to the target's index among the     *)
(* Unstarted records returns the record unchanged and writes nothing: the  *)
(* stored collection, order and every field, the target's updatedAt too,   *)
(* is what it was.                                                         *)
(***************************************************************************)
C8_ReorderSamePositionIsNoOp ==
    (/\ Called("reorderStory") /\ TargetKnown /\ EffectiveState(Target) = UNSTARTED
     /\ last.args.newPosition = findIndex(UnstartedOf(before), last.args.storyId)) =>
        /\ last.result.kind = "value"
        /\ last.result.value = Target
        /\ ~last.result.wrote
        /\ file = before

\* the second of several Unstarted stories, asked at a later time to go where it is
C8_Witness ==
    /\ Called("reorderStory") /\ TargetKnown /\ EffectiveState(Target) = UNSTARTED
    /\ last.args.newPosition = findIndex(UnstartedOf(before), last.args.storyId)
    /\ last.args.newPosition = 1
    /\ Target.updatedAt # toISOString(NewDate(last.now))
    /\ last.result.kind = "value"

(***************************************************************************)
(* C9.  Edit, set-lifecycle-state, mark-played and reorder called with an  *)
(* id that is not in the store return null, do not raise, write nothing    *)
(* and leave the persisted collection unchanged.                           *)
(***************************************************************************)
C9_UnknownIdReturnsNull ==
    (/\ Called("editUserStory") \/ Called("updateStoryProgressState")
            \/ Called("markStoryPlayed") \/ Called("reorderStory")
     /\ ~TargetKnown) =>
        /\ last.result.kind = "null"
        /\ ~last.result.wrote
        /\ file = before

\* reorder of an unknown id at a position out of range: null, not an error
C9_Witness ==
    /\ Called("reorderStory") /\ ~TargetKnown
    /\ Len(before) >= 1
    /\ last.args.newPosition < 0
    /\ last.result.kind = "null"

C11_MarkPlayedDerivesState ==
    (Called("markStoryPlayed") /\ TargetKnown) =>
        LET expected == IF last.args.played THEN PLAYED ELSE UNSTARTED
        IN  /\ last.result.kind = "value" /\ last.result.wrote
            /\ StoryOf(file, last.args.storyId).progressState = expected
            /\ StoryOf(file, last.args.storyId).played = last.args.played
            /\ last.result.value.progressState = expected

\* a Started record was marked unplayed and is Unstarted
C11_Witness ==
    /\ Called("markStoryPlayed") /\ TargetKnown
    /\ Target.progressState = STARTED
    /\ last.args.played = FALSE
    /\ StoryOf(file, last.args.storyId).progressState = UNSTARTED

C16_NoRecordIsRemoved ==
    /\ \A id \in IdSet(before) :
           Cardinality({i \in 1..Len(file) : file[i].id = id}) = 1
    /\ Len(file) >= Len(before)
    /\ Moved => Len(file) = Len(before)

\* a reorder moved a record of a store that held a fixed record as well
C16_Witness ==
    /\ Moved
    /\ Len(before) = 3
    /\ Len(FixedOf(before)) = 1
    /\ IdSet(file) = {1, 2, 3}

(***************************************************************************)
(* C19.  createdAt of a record is set when it is created and no later call *)
(* changes it; every successful edit, set-lifecycle-state, mark-played and *)
(* position-changing reorder sets updatedAt of its target to the time of   *)
(* the call and leaves the timestamps of all other records as they were.   *)
(***************************************************************************)
C19_Timestamps ==
    /\ \A i \in 1..Len(before) :
           /\ StoryOf(file, before[i].id).createdAt = before[i].createdAt
           /\ (last.result.wrote /\ TargetKnown /\ before[i].id = last.args.storyId) =>
                  StoryOf(file, before[i].id).updatedAt = toISOString(NewDate(last.now))
           /\ ~(last.result.wrote /\ TargetKnown /\ before[i].id = last.args.storyId) =>
                  StoryOf(file, before[i].id).updatedAt = before[i].updatedAt
    /\ Called("addUserStory") =>
           /\ file[Len(file)].createdAt = toISOString(NewDate(last.now))
           /\ file[Len(file)].updatedAt = toISOString(NewDate(last.now))
    /\ (TargetKnown /\ ~Called("reorderStory")) => last.result.wrote

\* an edit with an empty patch of a record created earlier, beside another record
C19_Witness ==
    /\ Called("editUserStory") /\ TargetKnown
    /\ DOMAIN last.args.updates = {}
    /\ Len(before) >= 2
    /\ Target.createdAt # toISOString(NewDate(last.now))
    /\ StoryOf(file, last.args.storyId).updatedAt # Target.updatedAt
    /\ StoryOf(file, last.args.storyId).createdAt = Target.createdAt

(***************************************************************************)
(* C18.  The calls run one after the other: list_user_stories with no      *)
(* filters, made after a call that wrote, returns exactly the collection   *)
(* that call persisted, in stored order; after a create on an empty store  *)
(* it returns exactly the created record.                                  *)
(***************************************************************************)
C18_ListReturnsWhatWasPersisted ==
    (Called("listUserStories") /\ DOMAIN last.args.filters = {}) =>
        /\ last.result.kind = "stories"
        /\ last.result.value.stories = file
        /\ (Len(last.result.value.stories) = 0) <=> (disk = "absent")

\* one call was made, a create, and the list is the record it created and no other
C18_Witness ==
    /\ Called("listUserStories") /\ DOMAIN last.args.filters = {}
    /\ calls = 1 /\ issued = 1
    /\ Len(last.result.value.stories) = 1
    /\ last.result.value.stories[1].id = 1
    /\ last.result.value.stories[1].title = "Login"
    /\ last.result.value.stories[1].createdAt = toISOString(NewDate(0))

(***************************************************************************)
(* C13.  Load normalizes every record of the array it reads: where the     *)
(* stored record has progressState, the returned played is true exactly    *)
(* when that progressState is Played, whatever played was stored; where it *)
(* has none, the returned progressState is Played if the stored played is  *)
(* true and Unstarted otherwise.  The other fields come back as stored.    *)
(***************************************************************************)
C13_LoadNormalizes ==
    (Called("listUserStories") /\ DOMAIN last.args.filters = {} /\ disk = "array") =>
        /\ last.result.kind = "stories"
        /\ Len(last.result.value.stories) = Len(file)
        /\ \A i \in 1..Len(file) :
               LET stored   == file[i]
                   returned == last.result.value.stories[i]
               IN  /\ IF Has(stored, "progressState")
                      THEN /\ returned.progressState = stored.progressState
                           /\ Has(returned, "played")
                           /\ returned.played = (stored.progressState = PLAYED)
                      ELSE /\ returned.progressState =
                                  IF Has(stored, "played") /\ stored.played
                                  THEN PLAYED ELSE UNSTARTED
                           /\ Has(returned, "played") = Has(stored, "played")
                   /\ \A k \in DOMAIN stored \ {"played", "progressState"} :
                          Has(returned, k) /\ returned[k] = stored[k]

\* a Started record stored with played true came back unplayed, and after it a
\* record without progressState stored with played true came back Played
C13_Witness ==
    /\ Called("listUserStories") /\ DOMAIN last.args.filters = {}
    /\ disk = "array" /\ Len(file) = 2
    /\ Has(file[1], "progressState") /\ file[1].progressState = STARTED
    /\ Has(file[1], "played") /\ file[1].played = TRUE
    /\ last.result.value.stories[1].played = FALSE
    /\ ~Has(file[2], "progressState")
    /\ Has(file[2], "played") /\ file[2].played = TRUE
    /\ last.result.value.stories[2].progressState = PLAYED

(***************************************************************************)
(* C14.  Load with no file at the path returns the empty collection and    *)
(* raises no error; when reading the file fails for another reason         *)
(* (permission denied) the error reaches the caller, and nothing is        *)
(* returned in its place.                                                  *)
(***************************************************************************)
C14_LoadAbsentOrUnreadable ==
    (Called("listUserStories") /\ DOMAIN last.args.filters = {}) =>
        /\ disk = "absent" =>
               last.result.kind = "stories" /\ last.result.value.stories = <<>>
        /\ disk = "denied" =>
               /\ last.result.kind = "throw"
               /\ last.result.value = NoValue
               /\ last.result.message = readError("denied").message

\* the file could not be read and the call threw
C14_Witness ==
    /\ Called("listUserStories") /\ DOMAIN last.args.filters = {}
    /\ disk = "denied"
    /\ last.result.kind = "throw"

(***************************************************************************)
(* C15.  Load of malformed data returns the empty collection and raises no *)
(* error, for text that is no JSON as well as for JSON that is no array of *)
(* records.                                                                *)
(***************************************************************************)
C15_MalformedDataLoadsEmpty ==
    (Called("listUserStories") /\ DOMAIN last.args.filters = {}
        /\ disk \in {"notJson", "notArray"}) =>
        /\ last.result.kind = "stories"
        /\ last.result.value.stories = <<>>

(***************************************************************************)
(* C17.  Round trip: the N records a call saves are the N records the next *)
(* load returns, in the same order and with every field equal to what was  *)
(* saved, played and progressState apart; where played and progressState   *)
(* of the saved records agree, the load returns the very collection saved. *)
(***************************************************************************)
C17_RoundTrip ==
    (last.result.wrote /\ ~last.result.failed) =>
        LET saved  == last.result.saved
            loaded == tryReadUserStories(disk, file)
        IN  /\ loaded.kind = "value"
            /\ Len(loaded.stories) = Len(saved)
            /\ \A i \in 1..Len(saved) :
                   \A k \in DOMAIN saved[i] \ {"played", "progressState"} :
                       Has(loaded.stories[i], k) /\ loaded.stories[i][k] = saved[i][k]
            /\ (\A i \in 1..Len(saved) : Agree(saved[i])) => loaded.stories = saved

(***************************************************************************)
(* C20.  When the write of a call fails, the persisted records are exactly *)
(* what they were before the call and the caller is told of the failure.   *)
(***************************************************************************)
C20_FailedWriteLeavesTheFile ==
    last.result.failed =>
        /\ last.result.kind = "throw"
        /\ tryReadUserStories(disk, file) = [kind |-> "value", stories |-> before]

(***************************************************************************)
(* C22.  progressState has no transition restrictions: from each of        *)
(* Unstarted, Started and Played one set-lifecycle-state call on a stored  *)
(* record reaches each of the three states, and no such call is rejected   *)
(* because of the state the record is in; of all calls on a stored record  *)
(* reorder alone can be rejected.                                          *)
(***************************************************************************)
C22_NoTransitionRestrictions ==
    /\ \A i \in 1..Len(file) : \A p \in StoryProgressState :
           \E r \in {updateStoryProgressState(file, file[i].id, p, now)} :
               r.kind = "value" /\ r.wrote /\ r.value.progressState = p
    /\ (Called("updateStoryProgressState") /\ TargetKnown) =>
           /\ last.result.kind = "value"
           /\ StoryOf(file, last.args.storyId).progressState = last.args.progressState
    /\ (TargetKnown /\ last.result.kind # "value") => Called("reorderStory")

\* a Played record was set back to Started
C22_Witness ==
    /\ Called("updateStoryProgressState") /\ TargetKnown
    /\ EffectiveState(Target) = PLAYED
    /\ last.args.progressState = STARTED
    /\ StoryOf(file, last.args.storyId).progressState = STARTED
    /\ StoryOf(file, last.args.storyId).played = FALSE

(***************************************************************************)
(* C25.  A successful reorder leaves the started and played stories in     *)
(* their original positions: every story that is not Unstarted has the     *)
(* same index in the persisted collection after the reorder as before it.  *)
(***************************************************************************)
C25_FixedKeepTheirIndex ==
    Moved =>
        \A i \in 1..Len(before) :
            EffectivelyFixed(before[i]) => file[i].id = before[i].id

(***************************************************************************)
(* C24.  Every call the dispatch layer handles ends with a response, no    *)
(* exception leaves the handler: when the store returns not-found or       *)
(* throws a domain error (reorder of a story that is not Unstarted, a      *)
(* position out of range) the response is an error response whose text     *)
(* carries the message, and for reorder the message of the store is        *)
(* wrapped in a failure message.                                           *)
(***************************************************************************)
Response == requestHandler(last.op, last.args, last.result)

C24_ErrorsBecomeErrorResponses ==
    ~Called("none") =>
        /\ Response.kind = "response"
        /\ Response.isError = (last.result.kind \in {"null", "throw"}
                                  \/ (Called("reorderStory") /\ last.args.newPosition < 0))
        /\ (last.result.kind = "null" /\ ~Called("reorderStory")) =>
               Response.text = [text |-> "Error: ",
                                errorMessage |-> notFoundMessage(last.args.storyId)]
        /\ (Called("reorderStory") /\ last.args.newPosition >= 0) =>
               /\ last.result.kind = "null" =>
                      Response.text =
                          [text |-> "Error: ",
                           errorMessage |->
                               [text |-> "Failed to reorder story: ",
                                errorMessage |-> notFoundMessage(last.args.storyId)]]
               /\ last.result.kind = "throw" =>
                      Response.text =
                          [text |-> "Error: ",
                           errorMessage |-> [text |-> "Failed to reorder story: ",
                                             errorMessage |-> last.result.message]]

\* a reorder of a Played story was answered with the wrapped message of the store
C24_Witness ==
    /\ Called("reorderStory") /\ TargetKnown
    /\ Target.progressState = PLAYED
    /\ last.args.newPosition = 0
    /\ last.result.kind = "throw"
    /\ Response.isError
    /\ Response.text.errorMessage.errorMessage =
           [text |-> "Can only reorder stories in Unstarted state"]

(***************************************************************************)
(* C26.  On every collection load produces, the eligibility test of        *)
(* reorder and the filter of the Unstarted stories agree on every record,  *)
(* and the two filters split the collection: each record is in exactly one *)
(* of the two parts.  Hence for a target that passes the test its index    *)
(* among the Unstarted stories is never -1 and the first splice removes    *)
(* the target and no other record.                                         *)
(***************************************************************************)
Loaded == IF readThrows(disk) THEN <<>> ELSE tryReadUserStories(disk, file).stories

C26_EligibilityAgreesWithPartition ==
    /\ \A i \in 1..Len(Loaded) :
           /\ isUnstarted(Loaded[i]) = ~notReorderable(Loaded[i])
           /\ isOther(Loaded[i]) = ~isUnstarted(Loaded[i])
           /\ ~notReorderable(Loaded[i]) =>
                  LET unstartedStories      == SelectSeq(Loaded, isUnstarted)
                      currentUnstartedIndex == findIndex(unstartedStories, Loaded[i].id)
                  IN  /\ currentUnstartedIndex # -1
                      /\ spliceRemoved(unstartedStories, currentUnstartedIndex)
                             = <<Loaded[i]>>
    /\ Len(SelectSeq(Loaded, isUnstarted)) + Len(SelectSeq(Loaded, isOther)) = Len(Loaded)
    /\ Moved => /\ last.result.value.id = last.args.storyId
                /\ Ids(file) = Ids(SelectSeq(readUserStories(before), isOther))
                                    \o Ids(SelectSeq(file, isUnstarted))
                /\ IdSet(file) = IdSet(before)

\* a record stored with neither played nor progressState was moved in front of a
\* record stored as Unstarted with played true
C26_Witness ==
    /\ Moved
    /\ Len(before) = 2
    /\ ~Has(before[2], "progressState") /\ ~Has(before[2], "played")
    /\ Has(before[1], "progressState") /\ before[1].progressState = UNSTARTED
    /\ Has(before[1], "played") /\ before[1].played = TRUE
    /\ Ids(file) = <<2, 1>>

(***************************************************************************)
(* C27.  After a create, edit, set-lifecycle-state, mark-played or         *)
(* position-changing reorder that succeeded, every record of the persisted *)
(* file, the target or not, has a progressState: records stored without it *)
(* are migrated by the first write, which saves the whole normalized       *)
(* collection.                                                             *)
(***************************************************************************)
C27_FirstWriteMigrates ==
    (last.result.wrote /\ ~last.result.failed) =>
        /\ disk = "array"
        /\ \A i \in 1..Len(file) :
               /\ Has(file[i], "progressState")
               /\ file[i].progressState \in StoryProgressState
        /\ \A i \in 1..Len(before) :
               (~Has(before[i], "progressState")
                   /\ ~(TargetKnown /\ last.args.storyId = before[i].id)) =>
                   StoryOf(file, before[i].id).progressState
                       = (IF TruthyPlayed(before[i]) THEN PLAYED ELSE UNSTARTED)

\* an edit of the first of two records stored without progressState gave the
\* second one, stored as played, the state Played
C27_Witness ==
    /\ Called("editUserStory") /\ last.result.wrote
    /\ Len(before) = 2 /\ last.args.storyId = 1
    /\ ~Has(before[1], "progressState") /\ ~Has(before[2], "progressState")
    /\ Has(before[2], "played") /\ before[2].played = TRUE
    /\ file[2].progressState = PLAYED

(***************************************************************************)
(* C23.  A list request that gives both a progressState filter and the     *)
(* played filter returns the stories the progressState filter (with the    *)
(* status, priority and assignee filters) selects, whatever the played     *)
(* filter says; the played filter selects only when no progressState       *)
(* filter is given.                                                        *)
(***************************************************************************)
Listed == last.result.value.stories

\* the story passes the status, priority, assignee and progressState filters of
\* the last request
PassesAllButPlayed(s) ==
    LET filters == last.args.filters
    IN  /\ \A k \in {"status", "priority", "assignee"} :
               (Has(filters, k) /\ filters[k] # "") => (Has(s, k) /\ s[k] = filters[k])
        /\ Has(filters, "progressState") => s.progressState = filters.progressState

\* the story has the played flag the last request asks for
PassesPlayed(s) == Has(s, "played") /\ s.played = last.args.filters.played

C23_ProgressStateFilterWins ==
    (Called("listUserStories") /\ last.result.kind = "stories") =>
        LET filters == last.args.filters
        IN  /\ Has(filters, "progressState") =>
                   Listed = SelectSeq(Loaded, PassesAllButPlayed)
            /\ (~Has(filters, "progressState") /\ Has(filters, "played")) =>
                   Listed = SelectSeq(SelectSeq(Loaded, PassesAllButPlayed), PassesPlayed)

\* a request for Unstarted stories with played true returned a story that is not
\* played
C23_Witness ==
    /\ Called("listUserStories") /\ last.result.kind = "stories"
    /\ Has(last.args.filters, "progressState") /\ Has(last.args.filters, "played")
    /\ last.args.filters.played = TRUE
    /\ Len(Listed) > 0
    /\ Listed[1].played = FALSE /\ Listed[1].progressState = UNSTARTED

(***************************************************************************)
(* C29.  A list request with the played filter alone (played = p) returns  *)
(* exactly the stored records whose effective state is Played when p is    *)
(* true, and exactly those whose effective state is not Played when p is   *)
(* false, records stored with neither played nor progressState included.   *)
(***************************************************************************)
EffectivelyPlayedAsAsked(s) == (EffectiveState(s) = PLAYED) = last.args.filters.played

C29_PlayedFilterByEffectiveState ==
    (Called("listUserStories") /\ last.result.kind = "stories"
        /\ DOMAIN last.args.filters = {"played"}) =>
        Ids(Listed) = Ids(SelectSeq(file, EffectivelyPlayedAsAsked))

(***************************************************************************)
(* C30.  On a store without Started records the reorder of the version     *)
(* that knows the played flag alone and the reorder of this version end    *)
(* the same way (story not found, state error, bounds error, nothing to    *)
(* do, moved) and leave the records in the same order -- provided every    *)
(* record stored with a progressState is stored as played exactly when     *)
(* that state is Played.  Without that proviso the two differ: the older   *)
(* version goes by played, this one by progressState.                      *)
(***************************************************************************)
\* the way a reorder ended
OutcomeKind(result) ==
    IF result.kind = "null" THEN "not found"
    ELSE IF result.kind = "throw"
         THEN (IF result.message.text = "New position must be between 0 and "
               THEN "bounds error" ELSE "state error")
    ELSE IF result.wrote THEN "moved" ELSE "nothing to do"

\* what the older version does with the arguments of the last call
Older == reorderStoryOlder(before, last.args.storyId, last.args.newPosition, last.now)

\* the last call and the older version end the same way with the same order
SameAsOlder ==
    /\ OutcomeKind(last.result) = OutcomeKind(Older)
    /\ Ids(file) = Ids(IF Older.wrote THEN Older.saved ELSE before)

\* the last call was a reorder on a store that was read, without Started records
ReorderWithoutStarted ==
    /\ Called("reorderStory") /\ disk = "array"
    /\ \A i \in 1..Len(before) : EffectiveState(before[i]) # STARTED

\* a record stored with progressState is stored as played exactly when that
\* state is Played
StoredFlagsAgree ==
    \A i \in 1..Len(before) :
        Has(before[i], "progressState") =>
            TruthyPlayed(before[i]) = (before[i].progressState = PLAYED)

\* the claim as the specification states it
C30_OlderReorderEquivalentOnAnyStore == ReorderWithoutStarted => SameAsOlder

C30_OlderReorderEquivalent == (ReorderWithoutStarted /\ StoredFlagsAgree) => SameAsOlder

\* both versions moved the second of two records, one stored with played alone,
\* one with both properties
C30_Witness ==
    /\ ReorderWithoutStarted /\ StoredFlagsAgree
    /\ Moved /\ Older.wrote
    /\ Len(before) = 2 /\ last.args.storyId = 2
    /\ ~Has(before[1], "progressState") /\ Has(before[1], "played")
    /\ Has(before[2], "progressState") /\ Has(before[2], "played")
    /\ Ids(file) = <<2, 1>>

(***************************************************************************)
(* C28.  Whatever the order in which the loads and the saves of calls that *)
(* overlap take place, every collection found in the file has pairwise     *)
(* distinct ids, and every record of it has played true exactly when its   *)
(* progressState is Played.                                                *)
(***************************************************************************)
C28_PersistedCollectionsStayWellFormed ==
    disk = "array" =>
        /\ \A i, j \in 1..Len(file) : file[i].id = file[j].id => i = j
        /\ \A i \in 1..Len(file) : Agree(file[i])

\* two creates read the store before either had written, and the file holds the
\* record of the one that wrote last
C28_Witness ==
    /\ disk = "array" /\ Len(file) = 1 /\ file[1].id = 1
    /\ issued = 2
    /\ \A p \in Procs : inflight[p].pc = "idle"
    /\ Called("addUserStory") /\ before = <<>>

(***************************************************************************)
(* C21.  When two writing calls have both loaded before either saves, the  *)
(* collection in the file at the end is the one the last writer wrote, and *)
(* the change of the other is lost.                                        *)
(***************************************************************************)
\* no call has opened the file without having written it
NoneOpened == \A p \in Procs : inflight[p].pc # "opened"

C21_LastWriterWins ==
    (NoneOpened /\ last.result.wrote) =>
        /\ disk = "array"
        /\ file = stringify(last.result.saved)

====
